---- MODULE Spec2Model ----
(***************************************************************************)
(* Model of PWGLF/TableProducer/lfTPCPID.cxx: the task lfTpcPid.           *)
(*                                                                         *)
(*   - init(): per species, the Bethe-Bloch parameters are resolved from   *)
(*     the compiled-in defaults, the configuration table and an external   *)
(*     locator (local file or ccdb:// object), or the species is skipped   *)
(*     and checked against the tables the workflow requires; then the      *)
(*     calibration store is configured.                                    *)
(*   - process<P> / processFull<P>: per batch of tracks, one entry per     *)
(*     track is appended to the species' compact or full table.            *)
(*                                                                         *)
(* Floats are modelled in fixed point: configuration flags in tenths (the  *)
(* threshold 1.5f is 15), momenta, masses and the resolution constant in   *)
(* thousandths, residuals in hundredths (with +inf, -inf and NaN as the    *)
(* results of a division by zero).                                         *)
(***************************************************************************)
EXTENDS Integers, Sequences, FiniteSets, TLC

(***************************************************************************)
(* Static data of the task (lines 43-51).  The task has nine species whose *)
(* init branches and process functions are textual copies of one another;  *)
(* the model carries two of them, one of charge 1 and one of charge 2.     *)
(***************************************************************************)
particleNames == <<"Ka", "He">>

Species == {particleNames[i] : i \in 1..Len(particleNames)}

parameterNames ==
  <<"Use default tiny", "Use default full", "Set parameters",
    "bb1", "bb2", "bb3", "bb4", "bb5",
    "MIP value", "Charge exponent", "Resolution">>

ParameterNameSet == {parameterNames[i] : i \in 1..Len(parameterNames)}

\* The labels setValues(TH1F* h) looks up, in the order of its initializer list.
binNames ==
  <<"bb1", "bb2", "bb3", "bb4", "bb5", "MIP value", "Charge exponent", "Resolution">>

\* defaultParameters[nSpecies][nParameters]{} : every entry of the table is 0.
defaultParameters == [n \in ParameterNameSet |-> 0]

\* The threshold 1.5f of the three boolean-like columns, in tenths.
FlagThreshold == 15

Modes == {"tiny", "full"}

(***************************************************************************)
(* struct bbParams: the member initializers (rounded: bb3 = 2.5e-16 is 0,  *)
(* res = 0.002 is 2 thousandths).                                          *)
(***************************************************************************)
bbParams ==
  [bb1 |-> 1, bb2 |-> 20, bb3 |-> 0, bb4 |-> 3, bb5 |-> 6,
   mip |-> 50, exp |-> 2, res |-> 2]

AsVector(p) == <<p.bb1, p.bb2, p.bb3, p.bb4, p.bb5, p.mip, p.exp, p.res>>

\* The result of one setValues overload: the parameters afterwards, the value
\* returned, the errors logged, the external sources touched, and whether the
\* call ended the process.
Result(p, ret, errs, access, crashed) ==
  [bb |-> p, ret |-> ret, errs |-> errs, access |-> access, crashed |-> crashed]

\* bool setValues(std::vector<float> v)
setValuesVector(p, v) ==
  IF Len(v) # 8
    THEN Result(p, FALSE, {"vector wrong size"}, {}, FALSE)
    ELSE Result([bb1 |-> v[1], bb2 |-> v[2], bb3 |-> v[3], bb4 |-> v[4],
                 bb5 |-> v[5], mip |-> v[6], exp |-> v[7], res |-> v[8]],
                TRUE, {}, {}, FALSE)

\* A mutant of setValuesTable: the flag is compared with > instead of <.
setValuesTableStrict(p, particle, tab) ==
  IF tab[particle]["Set parameters"] <= FlagThreshold
    THEN Result(p, FALSE, {}, {}, FALSE)
    ELSE setValuesVector(p, <<tab[particle]["bb1"], tab[particle]["bb2"],
                              tab[particle]["bb3"], tab[particle]["bb4"],
                              tab[particle]["bb5"], tab[particle]["MIP value"],
                              tab[particle]["Charge exponent"],
                              tab[particle]["Resolution"]>>)

\* bool setValues(const char* particle, const Configurable<LabeledArray<float>>& p)
setValuesTable(p, particle, tab) ==
  IF tab[particle]["Set parameters"] < FlagThreshold
    THEN Result(p, FALSE, {}, {}, FALSE)
    ELSE setValuesVector(p, <<tab[particle]["bb1"], tab[particle]["bb2"],
                              tab[particle]["bb3"], tab[particle]["bb4"],
                              tab[particle]["bb5"], tab[particle]["MIP value"],
                              tab[particle]["Charge exponent"],
                              tab[particle]["Resolution"]>>)

(***************************************************************************)
(* The histogram read by setValues(TH1F* h): nbins bins, of which the first  *)
(* Len(labels) carry a label; content[i] is the content of bin i, under    *)
(* the content of the underflow bin 0.                                     *)
(***************************************************************************)
Hist(nbins, labels, content, under, canExtend, alphanumeric) ==
  [nbins |-> nbins, labels |-> labels, content |-> content, under |-> under,
   canExtend |-> canExtend, alphanumeric |-> alphanumeric]

GetNbinsX(h) == h.nbins

\* h->GetBinContent(bin): bin 0 is the underflow bin, bins past nbins the overflow.
GetBinContent(h, bin) ==
  IF bin = 0 THEN h.under
  ELSE IF bin <= Len(h.content) THEN h.content[bin]
  ELSE 0

\* TH1::LabelsInflate: the number of bins doubles, the new bins are empty.
LabelsInflate(h) ==
  [h EXCEPT !.nbins = 2 * h.nbins,
            !.content = h.content \o [i \in 1..h.nbins |-> 0]]

\* axis->FindBin(label): the bin carrying the label; for a label the axis does
\* not carry, 0 unless the axis is (or becomes) alphanumeric and extendable, and
\* then the label is added, the histogram doubling when every bin is labelled.
FindBin(h, label) ==
  IF \E i \in 1..Len(h.labels) : h.labels[i] = label
    THEN [h |-> h, bin |-> CHOOSE i \in 1..Len(h.labels) : h.labels[i] = label]
  ELSE IF ~h.alphanumeric /\ (Len(h.labels) < h.nbins \/ ~h.canExtend)
    THEN [h |-> h, bin |-> 0]
  ELSE LET n == Len(h.labels)
           g == IF n >= h.nbins THEN LabelsInflate(h) ELSE h
       IN [h |-> [g EXCEPT !.labels = Append(h.labels, label),
                           !.alphanumeric = TRUE, !.canExtend = TRUE],
           bin |-> n + 1]

\* The initializer list of setValues(TH1F* h), evaluated left to right: the
\* histogram after the lookups and the eight contents read.
RECURSIVE ReadBins(_, _, _)
ReadBins(h, names, acc) ==
  IF names = <<>> THEN [h |-> h, v |-> acc]
  ELSE LET f == FindBin(h, Head(names))
       IN ReadBins(f.h, Tail(names), Append(acc, GetBinContent(f.h, f.bin)))

\* What dereferencing a null pointer (undefined behaviour) can produce: the
\* process dies, or the call goes on with indeterminate data.
Garbage ==
  [bb1 |-> 9, bb2 |-> 9, bb3 |-> 9, bb4 |-> 9, bb5 |-> 9,
   mip |-> 9, exp |-> 9, res |-> 9]

NullDereference(p) ==
  {Result(p, FALSE, {}, {}, TRUE),
   Result(p, FALSE, {}, {}, FALSE),
   Result(Garbage, TRUE, {}, {}, FALSE)}

\* A pointer: null, or the object it points to.
Null == [null |-> TRUE]
PointerTo(x) == [null |-> FALSE, obj |-> x]

\* bool setValues(TH1F* h)
setValuesHist(p, h) ==
  IF h.null THEN NullDereference(p)
  ELSE LET n == GetNbinsX(h.obj)
           r == ReadBins(h.obj, binNames, <<>>)
       IN IF GetNbinsX(r.h) # n
            THEN {Result(p, FALSE, {"histogram wrong size"}, {}, FALSE)}
            ELSE {setValuesVector(p, r.v)}

\* bool setValues(TFile* f)
setValuesFile(p, f) ==
  IF f.null THEN NullDereference(p)
  ELSE IF f.obj.hpar.null
    THEN {Result(p, FALSE, {"no histogram hpar"}, {}, FALSE)}
    ELSE setValuesHist(p, f.obj.hpar)

(***************************************************************************)
(* The world outside the task: the objects of the calibration store and    *)
(* the local files.  A string is a sequence of characters.                 *)
(***************************************************************************)
ccdbPrefix == <<"c", "c", "d", "b", ":", "/", "/">>

HGood ==
  Hist(8, binNames, <<3, 22, 2, 5, 8, 70, 1, 4>>, 0, FALSE, FALSE)

\* Well formed too: the eight labels, in another order.
HPermuted ==
  Hist(8,
       <<"Resolution", "Charge exponent", "MIP value",
         "bb5", "bb4", "bb3", "bb2", "bb1">>,
       <<5, 3, 80, 9, 6, 3, 23, 4>>, 0, FALSE, FALSE)

\* Malformed: no bin is labelled "Resolution", and bin 8 carries no label.
HPartial ==
  Hist(8, <<"bb1", "bb2", "bb3", "bb4", "bb5", "MIP value", "Charge exponent">>,
       <<3, 22, 2, 5, 8, 70, 1, 4>>, 0, FALSE, FALSE)

\* Malformed: every bin is labelled, one with another name, on an extendable
\* alphanumeric axis.
HRenamed ==
  Hist(8, <<"bb1", "bb2", "bb3", "bb4", "bb5", "MIP value", "Charge exponent", "Sigma">>,
       <<3, 22, 2, 5, 8, 70, 1, 4>>, 0, TRUE, TRUE)

\* ccdbObj->get<TH1F>(s): the object stored under the key, or null.
CcdbGet(key) ==
  IF key = <<"g">> THEN PointerTo(HPermuted) ELSE Null

\* TFile::Open(path, "READ"): the file, or null when it cannot be opened.
TFileOpen(path) ==
  CASE path = <<"/", "o">> -> PointerTo([hpar |-> PointerTo(HGood)])
    [] path = <<"/", "n">> -> PointerTo([hpar |-> Null])
    [] path = <<"/", "p">> -> PointerTo([hpar |-> PointerTo(HPartial)])
    [] path = <<"/", "r">> -> PointerTo([hpar |-> PointerTo(HRenamed)])
    [] OTHER -> Null

StartsWithCcdb(s) == Len(s) >= 7 /\ SubSeq(s, 1, 7) = ccdbPrefix

WithAccess(rs, a) == {[r EXCEPT !.access = r.access \cup {a}] : r \in rs}

\* A mutant of setValuesLocator: a one-character string is taken as a locator.
setValuesLocatorAnyLength(p, cfg) ==
  IF Len(cfg) < 1 THEN {Result(p, FALSE, {}, {}, FALSE)}
  ELSE IF StartsWithCcdb(cfg)
    THEN WithAccess(setValuesHist(p, CcdbGet(SubSeq(cfg, 8, Len(cfg)))), "ccdb")
    ELSE WithAccess(setValuesFile(p, TFileOpen(cfg)), "file")

\* bool setValues(const Configurable<std::string>& cfg, Service<BasicCCDBManager>)
setValuesLocator(p, cfg) ==
  IF Len(cfg) <= 1 THEN {Result(p, FALSE, {}, {}, FALSE)}
  ELSE IF StartsWithCcdb(cfg)
    THEN WithAccess(setValuesHist(p, CcdbGet(SubSeq(cfg, 8, Len(cfg)))), "ccdb")
    ELSE WithAccess(setValuesFile(p, TFileOpen(cfg)), "file")

(***************************************************************************)
(* Numbers.  A residual is a float: a finite value in hundredths, or one   *)
(* of the results of a division by zero.                                   *)
(***************************************************************************)
Fin(v) == [k |-> "fin", v |-> v]
PInf == [k |-> "inf"]
NInf == [k |-> "ninf"]
NaN == [k |-> "nan"]

Abs(x) == IF x < 0 THEN -x ELSE x

\* Division rounding towards zero.
Quot(a, b) == IF a >= 0 THEN a \div b ELSE -((-a) \div b)

RECURSIVE Pow(_, _)
Pow(x, n) == IF n <= 0 THEN 1 ELSE x * Pow(x, n - 1)

RECURSIVE SqrtFrom(_, _)
SqrtFrom(x, r) == IF (r + 1) * (r + 1) > x THEN r ELSE SqrtFrom(x, r + 1)

\* std::sqrt, rounded down.
Sqrt(x) == SqrtFrom(x, 0)

\* The float division of the residual: IEEE 754 for a zero divisor.
FDiv(num, den) ==
  IF den # 0 THEN Fin(Quot(num * 100, den))
  ELSE IF num > 0 THEN PInf
  ELSE IF num < 0 THEN NInf
  ELSE NaN

(***************************************************************************)
(* o2::track::pid_constants and o2::tpc::BetheBlochAleph, used at lines    *)
(* 218-220 and 272-278.  Masses in MeV; the curve is a stand-in for the    *)
(* closed form of the library: a function of bg and of the five shape      *)
(* constants, falling with bg and 0 for constants that are all 0.          *)
(***************************************************************************)
sMasses == [s \in Species |-> IF s = "He" THEN 2808 ELSE 494]
sCharges == [s \in Species |-> IF s = "He" THEN 2 ELSE 1]
sMasses2Z == [s \in Species |-> sMasses[s] \div sCharges[s]]

BetheBlochAleph(bg, kp1, kp2, kp3, kp4, kp5) ==
  (kp1 * (kp2 + kp3 + kp4 + kp5) * 1000) \div bg

\* float BetheBlochLf(const T& track, const bbParams& params)
BetheBlochLf(id, track, params) ==
  params.mip
    * BetheBlochAleph((track.tpcInnerParam * 1000) \div sMasses2Z[id],
                      params.bb1, params.bb2, params.bb3, params.bb4, params.bb5)
    * Pow(sCharges[id], params.exp)

\* float BetheBlochResolutionLf(const T& track, const bbParams& params)
BetheBlochResolutionLf(id, track, params) ==
  LET dEdx == BetheBlochLf(id, track, params)
      deltaP == params.res * Sqrt(dEdx)
      bgDelta == (track.tpcInnerParam * (1000 + deltaP)) \div sMasses[id]
      dEdx2 == params.mip
                 * BetheBlochAleph(bgDelta, params.bb1, params.bb2, params.bb3,
                                   params.bb4, params.bb5)
                 * Pow(sCharges[id], params.exp)
  IN Abs(dEdx2 - dEdx)

(***************************************************************************)
(* aod::pidutils::packInTable<aod::pidtpc_tiny::binning> (declared in      *)
(* Common/DataModel/PIDResponse.h): the residual is scaled by the bin      *)
(* width, rounded and clamped to the range of the binned type; values      *)
(* outside the range, and invalid ones, give a sentinel.                   *)
(***************************************************************************)
binned_max == 635
binned_min == -635
bin_width == 5
overflowBin == 127
underflowBin == -127

packInTable(valueToBin) ==
  CASE valueToBin.k = "nan" -> {underflowBin, overflowBin}
    [] valueToBin.k = "inf" -> {overflowBin}
    [] valueToBin.k = "ninf" -> {underflowBin}
    [] OTHER ->
         IF valueToBin.v <= binned_min THEN {underflowBin}
         ELSE IF valueToBin.v >= binned_max THEN {overflowBin}
         ELSE IF valueToBin.v >= 0
           THEN {(2 * valueToBin.v + bin_width) \div (2 * bin_width)}
           ELSE {-((2 * (-valueToBin.v) + bin_width) \div (2 * bin_width))}

(***************************************************************************)
(* The state of the task.                                                  *)
(***************************************************************************)
VARIABLES
  doprocess,       \* the PROCESS_SWITCH of each species: [tiny, full]
  bbParameters,    \* the configuration table, species -> column -> value
  fileParamBb,     \* the locator string of each species
  required,        \* the output tables the workflow requires: <<species, mode>>
  bb,              \* the bbParams object of each species
  pc,              \* "init", "ready", "fatal" (LOG(fatal)) or "crashed"
  nextSpecies,     \* the index of the init branch to run next
  errs,            \* the errors logged: <<species, message>>
  accessed,        \* external sources read: <<species, kind, store configured>>
  ccdbConfigured,  \* whether the calibration store has been configured
  tables,          \* the output tables, species -> mode -> entries
  inputs,          \* the tracks each table was fed, species -> mode -> tracks
  calls,           \* model evaluations made for each table, species -> mode
  nbatches         \* the batches processed so far

config == <<doprocess, bbParameters, fileParamBb, required>>
startup == <<bb, pc, nextSpecies, errs, accessed, ccdbConfigured>>
output == <<tables, inputs, calls, nbatches>>
vars == <<config, startup, output>>

\* A row of the configuration table.
Row(useTiny, useFull, setParameters, v) ==
  [n \in ParameterNameSet |->
     CASE n = "Use default tiny" -> useTiny
       [] n = "Use default full" -> useFull
       [] n = "Set parameters" -> setParameters
       [] OTHER -> v[CHOOSE i \in 1..8 : binNames[i] = n]]

\* The eight constants of a species' row, in the order setValues reads them.
RowVector(tab, s) == [i \in 1..8 |-> tab[s][binNames[i]]]

\* isTableRequiredInWorkflow(initContext, "pidTPCLf<P>") and "pidTPCLfFull<P>"
isTableRequiredInWorkflow(s, mode) == <<s, mode>> \in required

\* A mutant of InitBranch: the locator is applied before the table.
InitBranchLocatorFirst(s) ==
  IF doprocess[s].tiny \/ doprocess[s].full
    THEN {LET r2 == setValuesTable(r1.bb, s, bbParameters)
          IN [bb |-> r2.bb, errs |-> r1.errs \cup r2.errs, access |-> r1.access,
              end |-> IF r1.crashed THEN "crashed" ELSE "go"] :
            r1 \in setValuesLocator(bb[s], fileParamBb[s])}
  ELSE IF isTableRequiredInWorkflow(s, "tiny") \/ isTableRequiredInWorkflow(s, "full")
    THEN {[bb |-> bb[s], errs |-> {}, access |-> {}, end |-> "fatal"]}
    ELSE {[bb |-> bb[s], errs |-> {}, access |-> {}, end |-> "go"]}

\* A mutant of InitBranch: the missing table is logged, and init goes on.
InitBranchNoFatal(s) ==
  IF doprocess[s].tiny \/ doprocess[s].full
    THEN LET r1 == setValuesTable(bb[s], s, bbParameters)
         IN {[bb |-> r2.bb, errs |-> r1.errs \cup r2.errs, access |-> r2.access,
              end |-> IF r2.crashed THEN "crashed" ELSE "go"] :
               r2 \in setValuesLocator(r1.bb, fileParamBb[s])}
  ELSE IF isTableRequiredInWorkflow(s, "tiny") \/ isTableRequiredInWorkflow(s, "full")
    THEN {[bb |-> bb[s], errs |-> {"table requested but not enabled"},
           access |-> {}, end |-> "go"]}
    ELSE {[bb |-> bb[s], errs |-> {}, access |-> {}, end |-> "go"]}

\* A mutant of InitBranch: every branch reads the row of the first species.
InitBranchFirstRow(s) ==
  IF doprocess[s].tiny \/ doprocess[s].full
    THEN LET r1 == setValuesTable(bb[s], particleNames[1], bbParameters)
         IN {[bb |-> r2.bb, errs |-> r1.errs \cup r2.errs, access |-> r2.access,
              end |-> IF r2.crashed THEN "crashed" ELSE "go"] :
               r2 \in setValuesLocator(r1.bb, fileParamBb[s])}
  ELSE IF isTableRequiredInWorkflow(s, "tiny") \/ isTableRequiredInWorkflow(s, "full")
    THEN {[bb |-> bb[s], errs |-> {}, access |-> {}, end |-> "fatal"]}
    ELSE {[bb |-> bb[s], errs |-> {}, access |-> {}, end |-> "go"]}

\* One branch of init(): "if (doprocess<P> || doprocessFull<P>) { ... } else { ... }".
\* The possible outcomes: the parameters of the species afterwards, the errors
\* logged, the sources read, and how the branch ends.
InitBranch(s) ==
  IF doprocess[s].tiny \/ doprocess[s].full
    THEN LET r1 == setValuesTable(bb[s], s, bbParameters)
         IN {[bb |-> r2.bb, errs |-> r1.errs \cup r2.errs, access |-> r2.access,
              end |-> IF r2.crashed THEN "crashed" ELSE "go"] :
               r2 \in setValuesLocator(r1.bb, fileParamBb[s])}
  ELSE IF isTableRequiredInWorkflow(s, "tiny") \/ isTableRequiredInWorkflow(s, "full")
    THEN {[bb |-> bb[s], errs |-> {}, access |-> {}, end |-> "fatal"]}
    ELSE {[bb |-> bb[s], errs |-> {}, access |-> {}, end |-> "go"]}

\* init(), one species branch at a time, in the order of the source.
InitSpecies ==
  /\ pc = "init"
  /\ nextSpecies <= Len(particleNames)
  /\ LET s == particleNames[nextSpecies]
     IN \E o \in InitBranch(s) :
          /\ bb' = [bb EXCEPT ![s] = o.bb]
          /\ errs' = errs \cup {<<s, e>> : e \in o.errs}
          /\ accessed' = accessed \cup {<<s, a, ccdbConfigured>> : a \in o.access}
          /\ pc' = IF o.end = "go" THEN "init" ELSE o.end
  /\ nextSpecies' = nextSpecies + 1
  /\ UNCHANGED <<config, ccdbConfigured, output>>

\* init(), after the last branch: ccdb->setURL, setCaching, setCreatedNotAfter, ...
InitCcdb ==
  /\ pc = "init"
  /\ nextSpecies = Len(particleNames) + 1
  /\ ccdbConfigured' = TRUE
  /\ pc' = "ready"
  /\ UNCHANGED <<config, bb, nextSpecies, errs, accessed, output>>

(***************************************************************************)
(* The process functions generated by makeProcess(Particle).               *)
(***************************************************************************)
\* BetheBloch<P>(trk) and BetheBlochRes<P>(trk): the model with the species' bbParams.
BetheBloch(s, trk) == BetheBlochLf(s, trk, bb[s])
BetheBlochRes(s, trk) == BetheBlochResolutionLf(s, trk, bb[s])

\* A mutant of TinyEntries: the residual is stored without packInTable.
TinyEntriesUnpacked(s, trk) ==
  IF bbParameters[s]["Use default tiny"] >= FlagThreshold
    THEN {trk.tpcNSigmaStore}
    ELSE LET r == FDiv(trk.tpcSignal - BetheBloch(s, trk), BetheBlochRes(s, trk))
         IN IF r.k = "fin" THEN {Quot(r.v, bin_width)} ELSE {0}

\* A mutant of TinyEntries: the stored value is used below the threshold only.
TinyEntriesInverted(s, trk) ==
  IF bbParameters[s]["Use default tiny"] < FlagThreshold
    THEN {trk.tpcNSigmaStore}
    ELSE packInTable(FDiv(trk.tpcSignal - BetheBloch(s, trk), BetheBlochRes(s, trk)))

\* process<P>, the entry of one track: the values the row appended can hold.
TinyEntries(s, trk) ==
  IF bbParameters[s]["Use default tiny"] >= FlagThreshold
    THEN {trk.tpcNSigmaStore}
    ELSE packInTable(FDiv(trk.tpcSignal - BetheBloch(s, trk), BetheBlochRes(s, trk)))

\* A mutant of FullEntry: the residual is taken from the resolution.
FullEntryFromResolution(s, trk) ==
  IF bbParameters[s]["Use default full"] >= FlagThreshold
    THEN [sigma |-> trk.tpcExpSigma, nsigma |-> trk.tpcNSigma]
    ELSE [sigma |-> BetheBlochRes(s, trk),
          nsigma |-> FDiv(trk.tpcSignal - BetheBlochRes(s, trk), BetheBloch(s, trk))]

\* processFull<P>, the entry of one track.
FullEntry(s, trk) ==
  IF bbParameters[s]["Use default full"] >= FlagThreshold
    THEN [sigma |-> trk.tpcExpSigma, nsigma |-> trk.tpcNSigma]
    ELSE [sigma |-> BetheBlochRes(s, trk),
          nsigma |-> FDiv(trk.tpcSignal - BetheBloch(s, trk), BetheBlochRes(s, trk))]

\* The calls of BetheBlochLf and BetheBlochResolutionLf one track costs.
TinyCalls(s) == IF bbParameters[s]["Use default tiny"] >= FlagThreshold THEN 0 ELSE 3
FullCalls(s) == IF bbParameters[s]["Use default full"] >= FlagThreshold THEN 0 ELSE 5

Reverse(q) == [i \in 1..Len(q) |-> q[Len(q) + 1 - i]]

\* A mutant of TinyRows: the rows are appended last track first.
TinyRowsReversed(s, tracks) ==
  {o \in [1..Len(tracks) -> UNION {TinyEntries(s, tracks[i]) : i \in 1..Len(tracks)}] :
     \A i \in 1..Len(tracks) : o[i] \in TinyEntries(s, Reverse(tracks)[i])}

\* "for (auto const& trk : tracks)" of process<P>: the rows appended for a batch.
TinyRows(s, tracks) ==
  {o \in [1..Len(tracks) -> UNION {TinyEntries(s, tracks[i]) : i \in 1..Len(tracks)}] :
     \A i \in 1..Len(tracks) : o[i] \in TinyEntries(s, tracks[i])}

\* "for (auto const& trk : tracks)" of processFull<P>.
FullRows(s, tracks) == [i \in 1..Len(tracks) |-> FullEntry(s, tracks[i])]

\* The most batches a run processes, and the most tracks of a batch.
MaxBatches == 1
MaxBatchLen == 2

\* Tracks: the momentum at the inner wall (MeV/c), the signal, and the values
\* stored by the standard TPC PID tables.
Track(p, signal, store, expSigma, nSigma) ==
  [tpcInnerParam |-> p, tpcSignal |-> signal, tpcNSigmaStore |-> store,
   tpcExpSigma |-> expSigma, tpcNSigma |-> Fin(nSigma)]

Tracks ==
  {Track(494, 1450, 7, 11, 13), Track(494, 3000, -3, 12, 14),
   Track(494, 0, 100, 15, -16), Track(1404, 5800, -128, 17, 18)}

Batches == UNION {[1..n -> Tracks] : n \in 0..MaxBatchLen}

\* A mutant of processTiny: every batch restores the compiled-in parameters
\* of the species before filling the table.
processTinyRestoring(s) ==
  /\ pc = "ready"
  /\ doprocess[s].tiny
  /\ nbatches < MaxBatches
  /\ \E tracks \in Batches :
       /\ \E rows \in TinyRows(s, tracks) :
            tables' = [tables EXCEPT ![s].tiny = @ \o rows]
       /\ inputs' = [inputs EXCEPT ![s].tiny = @ \o tracks]
       /\ calls' = [calls EXCEPT ![s].tiny = @ + Len(tracks) * TinyCalls(s)]
  /\ nbatches' = nbatches + 1
  /\ bb' = [bb EXCEPT ![s] = bbParams]
  /\ UNCHANGED <<config, pc, nextSpecies, errs, accessed, ccdbConfigured>>

\* void process<P>(collisions, tracks, bcs), run by the framework when enabled.
processTiny(s) ==
  /\ pc = "ready"
  /\ doprocess[s].tiny
  /\ nbatches < MaxBatches
  /\ \E tracks \in Batches :
       /\ \E rows \in TinyRows(s, tracks) :
            tables' = [tables EXCEPT ![s].tiny = @ \o rows]
       /\ inputs' = [inputs EXCEPT ![s].tiny = @ \o tracks]
       /\ calls' = [calls EXCEPT ![s].tiny = @ + Len(tracks) * TinyCalls(s)]
  /\ nbatches' = nbatches + 1
  /\ UNCHANGED <<config, startup>>

\* void processFull<P>(collisions, tracks, bcs), run by the framework when enabled.
processFull(s) ==
  /\ pc = "ready"
  /\ doprocess[s].full
  /\ nbatches < MaxBatches
  /\ \E tracks \in Batches :
       /\ tables' = [tables EXCEPT ![s].full = @ \o FullRows(s, tracks)]
       /\ inputs' = [inputs EXCEPT ![s].full = @ \o tracks]
       /\ calls' = [calls EXCEPT ![s].full = @ + Len(tracks) * FullCalls(s)]
  /\ nbatches' = nbatches + 1
  /\ UNCHANGED <<config, startup>>

(***************************************************************************)
(* Configurations.                                                         *)
(***************************************************************************)
\* The most output tables a workflow requires.
MaxRequired == 1

RequiredSets == {r \in SUBSET (Species \X Modes) : Cardinality(r) <= MaxRequired}

Switches == [tiny : BOOLEAN, full : BOOLEAN]

\* Values of a boolean-like column: just below the threshold, and on it.
FlagValues == {FlagThreshold - 1, FlagThreshold}

RowA == <<2, 21, 1, 4, 7, 60, 3, 3>>

Locators ==
  {<<>>, <<"x">>, ccdbPrefix \o <<"g">>, ccdbPrefix \o <<"m">>,
   <<"/", "o">>, <<"/", "u">>, <<"/", "n">>, <<"/", "p">>, <<"/", "r">>}

\* The state after construction, for every configuration of the resolution.
InitCommon ==
  /\ doprocess \in [Species -> Switches]
  /\ required \in RequiredSets
  /\ bb = [s \in Species |-> bbParams]
  /\ pc = "init"
  /\ nextSpecies = 1
  /\ errs = {}
  /\ accessed = {}
  /\ ccdbConfigured = FALSE
  /\ tables = [s \in Species |-> [m \in Modes |-> <<>>]]
  /\ inputs = [s \in Species |-> [m \in Modes |-> <<>>]]
  /\ calls = [s \in Species |-> [m \in Modes |-> 0]]
  /\ nbatches = 0

InitResolve ==
  /\ InitCommon
  /\ bbParameters \in
       [Species -> {Row(0, 0, f, v) : f \in FlagValues, v \in {RowA, AsVector(bbParams)}}]
  /\ fileParamBb \in [Species -> Locators]

NextResolve == InitSpecies \/ InitCcdb

\* The startup of the task, over the configurations of the resolution cascade.
SpecResolve == InitResolve /\ [][NextResolve]_vars

\* The state after construction, for every configuration of the processing:
\* no external locator, the table's rows at their constructed value 0.
Init ==
  /\ InitCommon
  /\ bbParameters \in
       [Species -> {Row(t, f, p, [i \in 1..8 |-> 0]) :
                      t \in FlagValues, f \in FlagValues, p \in FlagValues}]
  /\ fileParamBb = [s \in Species |-> <<>>]

Next ==
  \/ InitSpecies
  \/ InitCcdb
  \/ \E s \in Species : processTiny(s)
  \/ \E s \in Species : processFull(s)

\* The task from construction on: init(), then the batches.
Spec == Init /\ [][Next]_vars

(***************************************************************************)
(* Vocabulary of the properties.                                           *)
(***************************************************************************)
IsEnabled(s) == doprocess[s].tiny \/ doprocess[s].full

SpeciesIndex(s) == CHOOSE i \in 1..Len(particleNames) : particleNames[i] = s

\* The init branch of the species has run.
BranchDone(s) == nextSpecies > SpeciesIndex(s)

SetParametersFlag(s) == bbParameters[s]["Set parameters"]

\* The parameters of a species once the configuration-table step has run.
AfterTableStep(s) ==
  IF SetParametersFlag(s) >= FlagThreshold THEN RowVector(bbParameters, s)
  ELSE AsVector(bbParams)

\* The object a locator of more than one character leads to: a pointer to a
\* histogram, or null (no object in the store, no file, no hpar in the file).
ExternalObject(loc) ==
  IF StartsWithCcdb(loc) THEN CcdbGet(SubSeq(loc, 8, Len(loc)))
  ELSE LET f == TFileOpen(loc)
       IN IF f.null THEN Null ELSE f.obj.hpar

HasBin(h, name) == \E i \in 1..Len(h.labels) : h.labels[i] = name

WellFormed(h) == \A i \in 1..8 : HasBin(h, binNames[i])

\* The content of the bin labelled name.
NamedContent(h, name) ==
  h.content[CHOOSE i \in 1..Len(h.labels) : h.labels[i] = name]

ExternalVector(h) == [i \in 1..8 |-> NamedContent(h, binNames[i])]

HasLocator(s) == Len(fileParamBb[s]) > 1

ResolvesWellFormed(s) ==
  /\ HasLocator(s)
  /\ ~ExternalObject(fileParamBb[s]).null
  /\ WellFormed(ExternalObject(fileParamBb[s]).obj)

Unreachable(s) == HasLocator(s) /\ ExternalObject(fileParamBb[s]).null

ResolvesMalformed(s) ==
  /\ HasLocator(s)
  /\ ~ExternalObject(fileParamBb[s]).null
  /\ ~WellFormed(ExternalObject(fileParamBb[s]).obj)

ErrorLogged(s) == \E e \in errs : e[1] = s

SourceRead(s) == \E a \in accessed : a[1] = s

(***************************************************************************)
(* C1  Override priority.  After init, an enabled species whose table row  *)
(* sets the parameters (flag >= 1.5) and whose locator leads to a          *)
(* histogram with the eight named bins holds the eight values of that      *)
(* histogram, not those of the table.                                      *)
(***************************************************************************)
C1_OverridePriority ==
  pc = "ready" =>
    \A s \in Species :
      (IsEnabled(s) /\ SetParametersFlag(s) >= FlagThreshold /\ ResolvesWellFormed(s))
        => AsVector(bb[s]) = ExternalVector(ExternalObject(fileParamBb[s]).obj)

C1_Witness ==
  /\ pc = "ready"
  /\ \E s \in Species :
       /\ IsEnabled(s) /\ SetParametersFlag(s) >= FlagThreshold /\ ResolvesWellFormed(s)
       /\ AsVector(bb[s]) = ExternalVector(ExternalObject(fileParamBb[s]).obj)
       /\ AsVector(bb[s]) # RowVector(bbParameters, s)

(***************************************************************************)
(* C2  Default cascade.  After init, a species whose flag is below 1.5 and *)
(* whose locator has at most one character holds the compiled-in defaults, *)
(* and neither a file nor the calibration store was read for it.           *)
(***************************************************************************)
C2_DefaultCascade ==
  pc = "ready" =>
    \A s \in Species :
      (SetParametersFlag(s) < FlagThreshold /\ ~HasLocator(s))
        => bb[s] = bbParams /\ ~SourceRead(s)

C2_Witness ==
  /\ pc = "ready"
  /\ \E s \in Species :
       /\ IsEnabled(s)
       /\ SetParametersFlag(s) < FlagThreshold
       /\ Len(fileParamBb[s]) = 1
       /\ RowVector(bbParameters, s) # AsVector(bbParams)
       /\ bb[s] = bbParams

(***************************************************************************)
(* C3  Configuration-table tier, as claimed: after init, an enabled        *)
(* species without locator holds the eight values of its table row if and  *)
(* only if its flag is >= 1.5.                                             *)
(***************************************************************************)
C3_TableTierIff ==
  pc = "ready" =>
    \A s \in Species :
      (IsEnabled(s) /\ ~HasLocator(s))
        => (AsVector(bb[s]) = RowVector(bbParameters, s)
              <=> SetParametersFlag(s) >= FlagThreshold)

(***************************************************************************)
(* C3  amended: after init, an enabled species without locator holds the   *)
(* eight values of its table row when its flag is >= 1.5 and the eight     *)
(* compiled-in defaults when it is not (so it equals the row exactly when  *)
(* the flag is >= 1.5 or the row itself equals the defaults); it never     *)
(* holds a mixture of the two.                                             *)
(***************************************************************************)
C3_TableTier ==
  pc = "ready" =>
    \A s \in Species :
      (IsEnabled(s) /\ ~HasLocator(s))
        => /\ SetParametersFlag(s) >= FlagThreshold
                => AsVector(bb[s]) = RowVector(bbParameters, s)
           /\ SetParametersFlag(s) < FlagThreshold
                => AsVector(bb[s]) = AsVector(bbParams)

C3_Witness ==
  /\ pc = "ready"
  /\ \E s \in Species :
       /\ IsEnabled(s) /\ ~HasLocator(s)
       /\ SetParametersFlag(s) >= FlagThreshold
       /\ AsVector(bb[s]) = RowVector(bbParameters, s)
       /\ \A i \in 1..8 : AsVector(bb[s])[i] # AsVector(bbParams)[i]

(***************************************************************************)
(* C4  Unreachable external source.  Once the branch of an enabled species *)
(* has run with a locator that leads to no object (no object in the store, *)
(* no file, no hpar in the file), an error is logged for the species, its  *)
(* parameters are those of the configuration-table step, and the process   *)
(* has not died.                                                           *)
(***************************************************************************)
C4_UnreachableRecoverable ==
  \A s \in Species :
    (IsEnabled(s) /\ Unreachable(s) /\ BranchDone(s))
      => /\ pc # "crashed"
         /\ ErrorLogged(s)
         /\ AsVector(bb[s]) = AfterTableStep(s)

(***************************************************************************)
(* C5  Malformed external object.  Once the branch of an enabled species   *)
(* has run with a locator that leads to a histogram lacking one of the     *)
(* eight named bins, an error is logged for the species and its parameters *)
(* are those of the configuration-table step.                              *)
(***************************************************************************)
C5_MalformedRejected ==
  \A s \in Species :
    (IsEnabled(s) /\ ResolvesMalformed(s) /\ BranchDone(s))
      => /\ ErrorLogged(s)
         /\ AsVector(bb[s]) = AfterTableStep(s)

(***************************************************************************)
(* Vocabulary of the properties of the process functions.                  *)
(***************************************************************************)
AllTablesEmpty == \A s \in Species : \A m \in Modes : tables[s][m] = <<>>

\* A species left disabled whose compact or full table the workflow requires.
RequiredButDisabled(s) ==
  /\ ~doprocess[s].tiny /\ ~doprocess[s].full
  /\ (<<s, "tiny">> \in required \/ <<s, "full">> \in required)

PassthroughTiny(s) == bbParameters[s]["Use default tiny"] >= FlagThreshold
PassthroughFull(s) == bbParameters[s]["Use default full"] >= FlagThreshold

\* The residual of a track under the parameters the species holds.
Residual(s, trk) ==
  FDiv(trk.tpcSignal - BetheBlochLf(s, trk, bb[s]),
       BetheBlochResolutionLf(s, trk, bb[s]))

Rows(s, m) == 1..Len(tables[s][m])

(***************************************************************************)
(* C6  Fatal cross-check.  When some species has both process functions    *)
(* disabled while the workflow requires its compact or full table, init    *)
(* never completes: its branch ends in the fatal error, and in the whole   *)
(* run no batch is processed and no table receives an entry.               *)
(***************************************************************************)
C6_FatalCrossCheck ==
  \A s \in Species :
    RequiredButDisabled(s)
      => /\ pc # "ready"
         /\ (BranchDone(s) /\ pc # "crashed") => pc = "fatal"
         /\ nbatches = 0
         /\ AllTablesEmpty

C6_Witness ==
  /\ pc = "fatal"
  /\ \E s \in Species : RequiredButDisabled(s) /\ BranchDone(s)
  /\ \E s \in Species : IsEnabled(s)
  /\ AllTablesEmpty

(***************************************************************************)
(* C7  Legacy passthrough.  A compact table whose species has "Use default *)
(* tiny" >= 1.5 holds, row by row, the stored compact residual of the      *)
(* track it was fed, and a full table whose species has "Use default full" *)
(* >= 1.5 the stored pair (expected sigma, nSigma); no evaluation of the   *)
(* energy-loss or resolution model was made for such a table, whatever the *)
(* parameters of the species.                                              *)
(***************************************************************************)
C7_LegacyPassthrough ==
  \A s \in Species :
    /\ PassthroughTiny(s)
         => /\ calls[s].tiny = 0
            /\ Len(tables[s].tiny) = Len(inputs[s].tiny)
            /\ \A i \in Rows(s, "tiny") :
                 tables[s].tiny[i] = inputs[s].tiny[i].tpcNSigmaStore
    /\ PassthroughFull(s)
         => /\ calls[s].full = 0
            /\ Len(tables[s].full) = Len(inputs[s].full)
            /\ \A i \in Rows(s, "full") :
                 /\ tables[s].full[i].sigma = inputs[s].full[i].tpcExpSigma
                 /\ tables[s].full[i].nsigma = inputs[s].full[i].tpcNSigma

\* A passed-through compact table of two rows, one of them a stored value
\* outside the range of the encoder, for a species whose parameters were set.
C7_Witness ==
  \E s \in Species :
    /\ PassthroughTiny(s)
    /\ bb[s] # bbParams
    /\ Len(tables[s].tiny) = 2
    /\ tables[s].tiny[1] # tables[s].tiny[2]
    /\ tables[s].tiny[2] < underflowBin

(***************************************************************************)
(* C8  Output order and cardinality.  Every table holds exactly one row    *)
(* per track it was fed, the i-th row computed from the i-th track, in the *)
(* passthrough and in the recomputation branch; the table of a disabled    *)
(* process function stays empty.                                           *)
(***************************************************************************)
C8_OrderAndCardinality ==
  \A s \in Species :
    /\ Len(tables[s].tiny) = Len(inputs[s].tiny)
    /\ Len(tables[s].full) = Len(inputs[s].full)
    /\ \A i \in Rows(s, "tiny") :
         IF PassthroughTiny(s)
           THEN tables[s].tiny[i] = inputs[s].tiny[i].tpcNSigmaStore
           ELSE tables[s].tiny[i] \in packInTable(Residual(s, inputs[s].tiny[i]))
    /\ \A i \in Rows(s, "full") :
         IF PassthroughFull(s)
           THEN tables[s].full[i] = [sigma |-> inputs[s].full[i].tpcExpSigma,
                                     nsigma |-> inputs[s].full[i].tpcNSigma]
           ELSE tables[s].full[i] =
                  [sigma |-> BetheBlochResolutionLf(s, inputs[s].full[i], bb[s]),
                   nsigma |-> Residual(s, inputs[s].full[i])]
    /\ ~doprocess[s].tiny => tables[s].tiny = <<>>
    /\ ~doprocess[s].full => tables[s].full = <<>>

\* A recomputed compact table of two different rows from two different tracks,
\* beside a disabled full table.
C8_Witness ==
  \E s \in Species :
    /\ ~PassthroughTiny(s)
    /\ ~doprocess[s].full
    /\ Len(tables[s].tiny) = 2
    /\ inputs[s].tiny[1] # inputs[s].tiny[2]
    /\ tables[s].tiny[1] # tables[s].tiny[2]

(***************************************************************************)
(* C9  Encoding saturation.  Every row of a recomputed compact table lies  *)
(* in the range of the encoder; it is the maximum for a residual at or     *)
(* above the range's maximum (+inf included), the minimum for one at or    *)
(* below its minimum (-inf included), and one of the two for the residual  *)
(* 0/0 of a zero expected resolution.                                      *)
(***************************************************************************)
C9_EncodingSaturation ==
  \A s \in Species :
    ~PassthroughTiny(s) =>
      \A i \in Rows(s, "tiny") :
        LET r == Residual(s, inputs[s].tiny[i])
            e == tables[s].tiny[i]
        IN /\ e \in underflowBin..overflowBin
           /\ (r.k = "inf" \/ (r.k = "fin" /\ r.v >= binned_max)) => e = overflowBin
           /\ (r.k = "ninf" \/ (r.k = "fin" /\ r.v <= binned_min)) => e = underflowBin
           /\ r.k = "nan" => e \in {underflowBin, overflowBin}

\* A recomputed compact table of a species whose expected resolution is 0:
\* the row of a residual x/0 = +inf and the row of a residual 0/0.
C9_Witness ==
  \E s \in Species :
    /\ ~PassthroughTiny(s)
    /\ Len(tables[s].tiny) = 2
    /\ BetheBlochResolutionLf(s, inputs[s].tiny[1], bb[s]) = 0
    /\ Residual(s, inputs[s].tiny[1]) = PInf
    /\ tables[s].tiny[1] = overflowBin
    /\ Residual(s, inputs[s].tiny[2]) = NaN
    /\ tables[s].tiny[2] \in {underflowBin, overflowBin}

\* A recomputed compact table with the rows of finite residuals above and
\* below the range.
C9_WitnessFinite ==
  \E s \in Species :
    /\ ~PassthroughTiny(s)
    /\ Len(tables[s].tiny) = 2
    /\ Residual(s, inputs[s].tiny[1]).k = "fin"
    /\ Residual(s, inputs[s].tiny[1]).v > binned_max
    /\ tables[s].tiny[1] = overflowBin
    /\ Residual(s, inputs[s].tiny[2]).k = "fin"
    /\ Residual(s, inputs[s].tiny[2]).v < binned_min
    /\ tables[s].tiny[2] = underflowBin

(***************************************************************************)
(* C10  Residual zero property, as claimed: in a recomputed full table,    *)
(* the residual of a track whose signal equals the expected signal is 0,   *)
(* also when the expected resolution is 0.                                 *)
(***************************************************************************)
C10_ResidualZeroAlways ==
  \A s \in Species :
    ~PassthroughFull(s) =>
      \A i \in Rows(s, "full") :
        inputs[s].full[i].tpcSignal = BetheBlochLf(s, inputs[s].full[i], bb[s])
          => tables[s].full[i].nsigma = Fin(0)

(***************************************************************************)
(* C10  amended: in a recomputed full table, the residual of a track whose *)
(* signal equals the expected signal is exactly 0 when the expected        *)
(* resolution is not 0; when the expected resolution is 0 the residual is  *)
(* 0/0, NaN.                                                               *)
(***************************************************************************)
C10_ResidualZero ==
  \A s \in Species :
    ~PassthroughFull(s) =>
      \A i \in Rows(s, "full") :
        inputs[s].full[i].tpcSignal = BetheBlochLf(s, inputs[s].full[i], bb[s])
          => IF tables[s].full[i].sigma # 0
               THEN tables[s].full[i].nsigma = Fin(0)
               ELSE tables[s].full[i].nsigma = NaN

C10_Witness ==
  \E s \in Species :
    /\ ~PassthroughFull(s)
    /\ Len(tables[s].full) = 1
    /\ inputs[s].full[1].tpcSignal = BetheBlochLf(s, inputs[s].full[1], bb[s])
    /\ inputs[s].full[1].tpcSignal > 0
    /\ tables[s].full[1].sigma > 0
    /\ tables[s].full[1].nsigma = Fin(0)

(***************************************************************************)
(* C11  Once init has returned, no step changes the ParameterSet of any    *)
(* species: every process call, compact or full, passthrough or            *)
(* recomputing, leaves all of them as init left them.  Nothing is written  *)
(* to a table before init has returned, and init never runs again, so      *)
(* every evaluation reads the values fixed at init.                        *)
(***************************************************************************)
C11_ParameterSetImmutable ==
  [][/\ pc = "ready" => (bb' = bb /\ pc' = "ready")
     /\ output' # output => (pc = "ready" /\ bb' = bb)]_vars

C11_Witness ==
  /\ pc = "ready"
  /\ nbatches = MaxBatches
  /\ \E s \in Species :
       /\ bb[s] # bbParams
       /\ ~PassthroughTiny(s)
       /\ Len(tables[s].tiny) = MaxBatchLen

\* The configuration table with every row but that of the species blanked.
OwnRowOnly(s) ==
  [t \in Species |-> IF t = s THEN bbParameters[s] ELSE defaultParameters]

\* What resolving the species can leave in its ParameterSet, computed from the
\* compiled-in defaults, the species' own row and the species' own locator.
OwnResolutions(s) ==
  {r.bb : r \in setValuesLocator(setValuesTable(bbParams, s, OwnRowOnly(s)).bb,
                                 fileParamBb[s])}

(***************************************************************************)
(* C12  Per-species independence and skipping.  A step of init changes the *)
(* ParameterSet of at most the species whose branch it runs, that species  *)
(* is enabled, the new value is determined by its own row and its own      *)
(* locator, and every source read and error logged in the step is its own. *)
(* A species with neither mode enabled keeps the compiled-in defaults and  *)
(* no file or store is read for it, whatever its flag and its locator.     *)
(***************************************************************************)
C12_SpeciesIndependence ==
  /\ [][\A s \in Species :
          /\ bb'[s] # bb[s] =>
                /\ pc = "init" /\ nextSpecies <= Len(particleNames)
                /\ s = particleNames[nextSpecies]
                /\ IsEnabled(s)
                /\ bb'[s] \in OwnResolutions(s)
          /\ (\E a \in accessed' \ accessed : a[1] = s) =>
                (s = particleNames[nextSpecies] /\ IsEnabled(s))
          /\ (\E e \in errs' \ errs : e[1] = s) =>
                (s = particleNames[nextSpecies] /\ IsEnabled(s))]_vars
  /\ [](\A s \in Species :
          ~IsEnabled(s) => (bb[s] = bbParams /\ ~SourceRead(s)))

C12_Witness ==
  /\ pc = "ready"
  /\ \E s, t \in Species :
       /\ ~IsEnabled(s)
       /\ SetParametersFlag(s) >= FlagThreshold
       /\ RowVector(bbParameters, s) # AsVector(bbParams)
       /\ ResolvesWellFormed(s)
       /\ bb[s] = bbParams
       /\ IsEnabled(t)
       /\ SetParametersFlag(t) < FlagThreshold
       /\ ResolvesWellFormed(t)
       /\ bb[t] # bbParams
       /\ SourceRead(t)

(***************************************************************************)
(* C13  Store configured before use.  Every fetch of a parameter object    *)
(* from the calibration store made by init was made after the store had    *)
(* been configured (URL, caching, created-not-after limit, timestamp).     *)
(***************************************************************************)
C13_FetchAfterConfigured ==
  \A a \in accessed : a[2] = "ccdb" => a[3]

(***************************************************************************)
(* C14  Cross-check completeness.  In every run that gets past init, each  *)
(* output table the workflow requires has its own process mode enabled:    *)
(* the compact table the compact mode of its species, the full table the   *)
(* full mode.                                                              *)
(***************************************************************************)
C14_RequiredTablesProduced ==
  pc = "ready" => \A r \in required : doprocess[r[1]][r[2]]

====
